---- MODULE Spec2Model ----
(***************************************************************************)
(* Model of the backup engine of src/Backup.py (class BackupSystem):       *)
(* the manifest store (_load_manifest / _save_manifest), the hasher and    *)
(* the three strategies full_backup, incremental_backup and                *)
(* differential_backup, together with the file system they act on (the     *)
(* source tree, the backup folders, the manifest file) and the clock that  *)
(* names the folders.                                                      *)
(***************************************************************************)
EXTENDS Integers, Sequences, FiniteSets, TLC

\* ---- bounds ----

\* environment events in one behaviour: a clock tick, a write to the source
\* tree, an injected I/O failure
MaxEvents == 3
\* records in the manifest a run may start from, plus one
MaxRecs == 3

\* ---- universe ----

Paths == {"a.txt", "b.txt"}
Contents == {1, 2}
Procs == {1, 2}
Solo == {1}
\* the content of a path that is no regular file
NoFile == 0

VARIABLES
    source,        \* source tree: relative path -> content, or NoFile
    clock,         \* wall clock in seconds, the resolution of strftime
    mfile,         \* backup_manifest.json on disk
    disk,          \* backup folders: name -> existence and copied files
    pc,            \* position of each engine run
    op,            \* the strategy the caller invoked
    backup_path,   \* local backup_path of the run
    timestamp,     \* local timestamp of the run
    manifest,      \* local manifest['backups'], as loaded by the run
    last,          \* local last_backup / last_full: the reference record
    new_files,     \* local file_manifest / new_files / changed_files
    todo,          \* entries of the rglob walk not visited yet
    cur,           \* local rel_path of the current iteration
    current_hash,  \* local current_hash
    count,         \* local files_processed (full) / files_backed_up
    outcome,       \* what the caller of the run gets: a return or a raise
    touched,       \* the source was written since the last record was appended
    events         \* environment events so far

vars == <<source, clock, mfile, disk, pc, op, backup_path, timestamp,
          manifest, last, new_files, todo, cur, current_hash, count,
          outcome, touched, events>>

\* ---- pure helpers ----

\* hashlib.md5 of a content: injective on the contents of the model, and
\* never equal to a content
MD5(c) == 100 + c

\* a dict keyed by relative path: NoKey marks a path that is not a key
NoKey == 0
EmptyMap == [f \in Paths |-> NoKey]

\* the names a backup folder can have, and a name that has no folder
FolderNames ==
    {"full_backup", "incr_backup", "diff_backup"} \X (0..MaxEvents)
NoDir == [exists |-> FALSE, files |-> EmptyMap]

NoRecord == [type |-> "none"]
NoPath == <<"none", 0>>
Absent == [st |-> "absent", backups |-> << >>]
Corrupt == [st |-> "corrupt", backups |-> << >>]

\* faulty variant of LoadManifest: an unparsable file is not read as empty,
\* what can be salvaged from it is returned as a record
LoadManifestSalvage(file) ==
    IF file.st = "corrupt"
    THEN <<[type |-> "salvaged", timestamp |-> 0, path |-> NoPath,
            files |-> EmptyMap]>>
    ELSE file.backups

\* json.load of the manifest file; a missing or unparsable file is empty
LoadManifest(file) == IF file.st = "valid" THEN file.backups ELSE << >>

\* the file a completed json.dump leaves
Dumped(m) == [st |-> "valid", backups |-> m]

\* what open(manifest_file, 'w') + json.dump leave when the write fails:
\* the file as it was (open failed) or a truncated / half-written file
FailedDump(file) == {file, Corrupt}

\* backup_path.mkdir(parents=True, exist_ok=True)
Mkdir(d, name) ==
    IF d[name].exists THEN d
    ELSE [d EXCEPT ![name] = [exists |-> TRUE, files |-> EmptyMap]]

\* dest_file.parent.mkdir(parents=True, exist_ok=True); shutil.copy2(src, dest)
Copy2(d, name, f, c) ==
    [d EXCEPT ![name] = [exists |-> TRUE,
                         files |-> [@.files EXCEPT ![f] = c]]]

\* shutil.rmtree(backup_path, ...)
Rmtree(d, name) == [d EXCEPT ![name] = NoDir]

\* self.source_dir.rglob('*'): the directory entries at scan time
Rglob(src) == {f \in Paths : src[f] # NoFile}

\* faulty variant of Changed: a path that is not in the reference map is
\* taken as unchanged
ChangedIgnoresNew(last_files, rel_path, h) ==
    last_files[rel_path] # NoKey /\ last_files[rel_path] # h

\* rel_path not in last_files or last_files[rel_path] != current_hash
Changed(last_files, rel_path, h) ==
    last_files[rel_path] = NoKey \/ last_files[rel_path] # h

\* faulty variant of LastBackup: the oldest record instead of the newest
LastBackupFirst(m) == m[1]

\* manifest['backups'][-1]
LastBackup(m) == m[Len(m)]

\* for backup in reversed(manifest['backups']): if backup['type'] == 'full'
RECURSIVE FindLastFull(_, _)
FindLastFull(m, i) ==
    IF i = 0 THEN NoRecord
    ELSE IF m[i].type = "full" THEN m[i]
    ELSE FindLastFull(m, i - 1)

\* faulty variant of LastFull: the newest record, whatever its type
LastFullLatest(m) == m[Len(m)]

LastFull(m) == FindLastFull(m, Len(m))

Idle(p) == pc[p] = "idle"
AllIdle == \A p \in Procs : Idle(p)

\* ---- initial states ----

InitRun ==
    /\ pc = [p \in Procs |-> "idle"]
    /\ op = [p \in Procs |-> "none"]
    /\ backup_path = [p \in Procs |-> NoPath]
    /\ timestamp = [p \in Procs |-> 0]
    /\ manifest = [p \in Procs |-> << >>]
    /\ last = [p \in Procs |-> NoRecord]
    /\ new_files = [p \in Procs |-> EmptyMap]
    /\ todo = [p \in Procs |-> {}]
    /\ cur = [p \in Procs |-> ""]
    /\ current_hash = [p \in Procs |-> 0]
    /\ count = [p \in Procs |-> 0]
    /\ outcome = [p \in Procs |-> [status |-> "none"]]

InitEnv ==
    /\ source = [f \in Paths |-> 1]
    /\ clock = 0
    /\ touched = FALSE
    /\ events = 0

\* a fresh backup directory: BackupSystem.__init__ creates it, no manifest yet
Init ==
    /\ InitEnv
    /\ mfile = Absent
    /\ disk = [n \in FolderNames |-> NoDir]
    /\ InitRun

\* an incremental record and its folder, kept from an earlier chain whose
\* other records were pruned from the manifest file
KeptIncr ==
    [type |-> "incremental", timestamp |-> 0, path |-> <<"incr_backup", 0>>,
     files |-> [EmptyMap EXCEPT !["a.txt"] = MD5(1)], parent |-> 0]

\* a backup directory as the engine may find it: no manifest, an unparsable
\* one, one without records, or one whose records include no full backup
InitAny ==
    /\ InitEnv
    /\ InitRun
    /\ \/ /\ mfile \in {Absent, Corrupt, Dumped(<< >>)}
          /\ disk = [n \in FolderNames |-> NoDir]
       \/ /\ mfile = Dumped(<<KeptIncr>>)
          /\ disk = Copy2([n \in FolderNames |-> NoDir],
                          <<"incr_backup", 0>>, "a.txt", 1)

\* ---- environment ----

\* one second passes
Tick ==
    /\ events < MaxEvents
    /\ events' = events + 1
    /\ clock' = clock + 1
    /\ UNCHANGED <<source, mfile, disk, pc, op, backup_path, timestamp,
                   manifest, last, new_files, todo, cur, current_hash,
                   count, outcome, touched>>

\* the user creates, rewrites or deletes a source file
Modify ==
    /\ events < MaxEvents
    /\ events' = events + 1
    /\ \E f \in Paths, c \in Contents \cup {NoFile} :
        /\ c # source[f]
        /\ source' = [source EXCEPT ![f] = c]
    /\ touched' = TRUE
    /\ UNCHANGED <<clock, mfile, disk, pc, op, backup_path, timestamp,
                   manifest, last, new_files, todo, cur, current_hash,
                   count, outcome>>

\* ---- what the three strategies share ----

\* faulty variant of ExceptHandler: the handler re-raises without removing
\* the folder
ExceptHandlerKeepFolder(p, err, file, injected) ==
    /\ mfile' = file
    /\ outcome' = [outcome EXCEPT ![p] = [status |-> "failed", error |-> err]]
    /\ pc' = [pc EXCEPT ![p] = "done"]
    /\ IF injected
       THEN events < MaxEvents /\ events' = events + 1
       ELSE events' = events
    /\ UNCHANGED <<source, clock, disk, op, backup_path, timestamp, manifest,
                   last, new_files, todo, cur, current_hash, count, touched>>

\* except Exception: shutil.rmtree(backup_path, ignore_errors=True); raise
\* (file is the manifest file the failed statement left; injected tells an
\* injected failure from one the state of the file system causes)
ExceptHandler(p, err, file, injected) ==
    /\ disk' = Rmtree(disk, backup_path[p])
    /\ mfile' = file
    /\ outcome' = [outcome EXCEPT ![p] = [status |-> "failed", error |-> err]]
    /\ pc' = [pc EXCEPT ![p] = "done"]
    /\ IF injected
       THEN events < MaxEvents /\ events' = events + 1
       ELSE events' = events
    /\ UNCHANGED <<source, clock, op, backup_path, timestamp, manifest, last,
                   new_files, todo, cur, current_hash, count, touched>>

\* faulty variant of AppendAndSave: the save is made outside the try block,
\* so a failed write raises without the handler's cleanup
AppendAndSaveOutsideTry(p, backup_info) ==
    \/ /\ mfile' = Dumped(Append(manifest[p], backup_info))
       /\ outcome' = [outcome EXCEPT ![p] =
             [status |-> "completed", path |-> backup_path[p],
              count |-> count[p]]]
       /\ pc' = [pc EXCEPT ![p] = "done"]
       /\ touched' = FALSE
       /\ UNCHANGED <<source, clock, disk, op, backup_path, timestamp,
                      manifest, last, new_files, todo, cur, current_hash,
                      count, events>>
    \/ /\ events < MaxEvents
       /\ events' = events + 1
       /\ mfile' \in FailedDump(mfile)
       /\ outcome' = [outcome EXCEPT ![p] =
             [status |-> "failed", error |-> "save"]]
       /\ pc' = [pc EXCEPT ![p] = "done"]
       /\ UNCHANGED <<source, clock, disk, op, backup_path, timestamp,
                      manifest, last, new_files, todo, cur, current_hash,
                      count, touched>>

\* faulty variant of AppendAndSave: the write that fails has already put the
\* whole new manifest in the file when the error is raised
AppendAndSaveRaiseLate(p, backup_info) ==
    \/ /\ mfile' = Dumped(Append(manifest[p], backup_info))
       /\ outcome' = [outcome EXCEPT ![p] =
             [status |-> "completed", path |-> backup_path[p],
              count |-> count[p]]]
       /\ pc' = [pc EXCEPT ![p] = "done"]
       /\ touched' = FALSE
       /\ UNCHANGED <<source, clock, disk, op, backup_path, timestamp,
                      manifest, last, new_files, todo, cur, current_hash,
                      count, events>>
    \/ ExceptHandler(p, "save", Dumped(Append(manifest[p], backup_info)),
                     TRUE)

\* faulty variant of AppendAndSave: the manifest file is read again right
\* before the append, so records saved since the run started are kept
AppendAndSaveReload(p, backup_info) ==
    \/ /\ mfile' = Dumped(Append(LoadManifest(mfile), backup_info))
       /\ outcome' = [outcome EXCEPT ![p] =
             [status |-> "completed", path |-> backup_path[p],
              count |-> count[p]]]
       /\ pc' = [pc EXCEPT ![p] = "done"]
       /\ touched' = FALSE
       /\ UNCHANGED <<source, clock, disk, op, backup_path, timestamp,
                      manifest, last, new_files, todo, cur, current_hash,
                      count, events>>
    \/ \E file \in FailedDump(mfile) : ExceptHandler(p, "save", file, TRUE)

\* manifest['backups'].append(backup_info); self._save_manifest(manifest);
\* return backup_path, count -- or the write fails and the handler runs
AppendAndSave(p, backup_info) ==
    \/ /\ mfile' = Dumped(Append(manifest[p], backup_info))
       /\ outcome' = [outcome EXCEPT ![p] =
             [status |-> "completed", path |-> backup_path[p],
              count |-> count[p]]]
       /\ pc' = [pc EXCEPT ![p] = "done"]
       /\ touched' = FALSE
       /\ UNCHANGED <<source, clock, disk, op, backup_path, timestamp,
                      manifest, last, new_files, todo, cur, current_hash,
                      count, events>>
    \/ \E file \in FailedDump(mfile) : ExceptHandler(p, "save", file, TRUE)

\* faulty variant of NoChanges: the empty folder is left behind
NoChangesKeepFolder(p) ==
    /\ outcome' = [outcome EXCEPT ![p] = [status |-> "skipped", count |-> 0]]
    /\ pc' = [pc EXCEPT ![p] = "done"]
    /\ UNCHANGED <<source, clock, mfile, disk, op, backup_path, timestamp,
                   manifest, last, new_files, todo, cur, current_hash, count,
                   touched, events>>

\* else: shutil.rmtree(backup_path); return None, 0 -- rmtree raises when
\* the folder is gone, and the handler runs
NoChanges(p) ==
    IF disk[backup_path[p]].exists
    THEN /\ disk' = Rmtree(disk, backup_path[p])
         /\ outcome' = [outcome EXCEPT ![p] =
                [status |-> "skipped", count |-> 0]]
         /\ pc' = [pc EXCEPT ![p] = "done"]
         /\ UNCHANGED <<source, clock, mfile, op, backup_path, timestamp,
                        manifest, last, new_files, todo, cur, current_hash,
                        count, touched, events>>
    ELSE ExceptHandler(p, "rmtree", mfile, FALSE)

\* the call returns (or raises) to its caller and its frame is dropped
Return(p) ==
    /\ pc[p] = "done"
    /\ pc' = [pc EXCEPT ![p] = "idle"]
    /\ op' = [op EXCEPT ![p] = "none"]
    /\ backup_path' = [backup_path EXCEPT ![p] = NoPath]
    /\ timestamp' = [timestamp EXCEPT ![p] = 0]
    /\ manifest' = [manifest EXCEPT ![p] = << >>]
    /\ last' = [last EXCEPT ![p] = NoRecord]
    /\ new_files' = [new_files EXCEPT ![p] = EmptyMap]
    /\ todo' = [todo EXCEPT ![p] = {}]
    /\ cur' = [cur EXCEPT ![p] = ""]
    /\ current_hash' = [current_hash EXCEPT ![p] = 0]
    /\ count' = [count EXCEPT ![p] = 0]
    /\ outcome' = [outcome EXCEPT ![p] = [status |-> "none"]]
    /\ UNCHANGED <<source, clock, mfile, disk, touched, events>>

\* ---- full_backup ----

FullStart(p) ==
    /\ Idle(p)
    /\ Len(LoadManifest(mfile)) < MaxRecs
    /\ op' = [op EXCEPT ![p] = "full"]
    /\ timestamp' = [timestamp EXCEPT ![p] = clock]
    /\ backup_path' = [backup_path EXCEPT ![p] = <<"full_backup", clock>>]
    /\ disk' = Mkdir(disk, <<"full_backup", clock>>)
    /\ manifest' = [manifest EXCEPT ![p] = LoadManifest(mfile)]
    /\ new_files' = [new_files EXCEPT ![p] = EmptyMap]
    /\ todo' = [todo EXCEPT ![p] = Rglob(source)]
    /\ count' = [count EXCEPT ![p] = 0]
    /\ outcome' = [outcome EXCEPT ![p] = [status |-> "running"]]
    /\ pc' = [pc EXCEPT ![p] = "full_walk"]
    /\ UNCHANGED <<source, clock, mfile, last, cur, current_hash, touched,
                   events>>

\* one iteration up to and including shutil.copy2
FullCopy(p) ==
    /\ pc[p] = "full_walk"
    /\ \E f \in todo[p] :
        /\ todo' = [todo EXCEPT ![p] = @ \ {f}]
        /\ IF source[f] = NoFile
           THEN UNCHANGED <<disk, cur, pc>>
           ELSE /\ disk' = Copy2(disk, backup_path[p], f, source[f])
                /\ cur' = [cur EXCEPT ![p] = f]
                /\ pc' = [pc EXCEPT ![p] = "full_hash"]
    /\ UNCHANGED <<source, clock, mfile, op, backup_path, timestamp,
                   manifest, last, new_files, current_hash, count, outcome,
                   touched, events>>

\* faulty variant of FullHash: the digest is recorded but files_processed is
\* not advanced
FullHashCountLost(p) ==
    /\ pc[p] = "full_hash"
    /\ IF source[cur[p]] = NoFile
       THEN ExceptHandler(p, "hash", mfile, FALSE)
       ELSE /\ new_files' = [new_files EXCEPT ![p] =
                   [@ EXCEPT ![cur[p]] = MD5(source[cur[p]])]]
            /\ pc' = [pc EXCEPT ![p] = "full_walk"]
            /\ UNCHANGED <<source, clock, mfile, disk, op, backup_path,
                           timestamp, manifest, last, todo, cur,
                           current_hash, count, outcome, touched, events>>

\* file_manifest[str(rel_path)] = self._calculate_file_hash(src_file)
FullHash(p) ==
    /\ pc[p] = "full_hash"
    /\ IF source[cur[p]] = NoFile
       THEN ExceptHandler(p, "hash", mfile, FALSE)
       ELSE /\ new_files' = [new_files EXCEPT ![p] =
                   [@ EXCEPT ![cur[p]] = MD5(source[cur[p]])]]
            /\ count' = [count EXCEPT ![p] = @ + 1]
            /\ pc' = [pc EXCEPT ![p] = "full_walk"]
            /\ UNCHANGED <<source, clock, mfile, disk, op, backup_path,
                           timestamp, manifest, last, todo, cur,
                           current_hash, outcome, touched, events>>

\* an I/O error raised by shutil.copy2 or by the hasher inside the loop
FullIOError(p) ==
    \/ /\ pc[p] = "full_walk" /\ todo[p] # {}
       /\ ExceptHandler(p, "copy", mfile, TRUE)
    \/ /\ pc[p] = "full_hash"
       /\ ExceptHandler(p, "hash", mfile, TRUE)

FullFinish(p) ==
    /\ pc[p] = "full_walk" /\ todo[p] = {}
    /\ AppendAndSave(p, [type |-> "full", timestamp |-> timestamp[p],
                         path |-> backup_path[p], files |-> new_files[p]])

\* ---- incremental_backup ----

\* faulty variant of IncrStart: no test for an empty manifest, the walk
\* compares against an empty reference
IncrStartNoPrecondition(p) ==
    /\ Idle(p)
    /\ Len(LoadManifest(mfile)) < MaxRecs
    /\ op' = [op EXCEPT ![p] = "incremental"]
    /\ manifest' = [manifest EXCEPT ![p] = LoadManifest(mfile)]
    /\ last' = [last EXCEPT ![p] =
           IF LoadManifest(mfile) = << >>
           THEN [type |-> "none", timestamp |-> 0, files |-> EmptyMap]
           ELSE LastBackup(LoadManifest(mfile))]
    /\ new_files' = [new_files EXCEPT ![p] = EmptyMap]
    /\ timestamp' = [timestamp EXCEPT ![p] = clock]
    /\ backup_path' = [backup_path EXCEPT ![p] = <<"incr_backup", clock>>]
    /\ disk' = Mkdir(disk, <<"incr_backup", clock>>)
    /\ todo' = [todo EXCEPT ![p] = Rglob(source)]
    /\ count' = [count EXCEPT ![p] = 0]
    /\ outcome' = [outcome EXCEPT ![p] = [status |-> "running"]]
    /\ pc' = [pc EXCEPT ![p] = "incr_walk"]
    /\ UNCHANGED <<source, clock, mfile, cur, current_hash, touched, events>>

IncrStart(p) ==
    /\ Idle(p)
    /\ Len(LoadManifest(mfile)) < MaxRecs
    /\ op' = [op EXCEPT ![p] = "incremental"]
    /\ manifest' = [manifest EXCEPT ![p] = LoadManifest(mfile)]
    /\ IF LoadManifest(mfile) = << >>
       THEN /\ outcome' = [outcome EXCEPT ![p] =
                   [status |-> "skipped", count |-> 0]]
            /\ pc' = [pc EXCEPT ![p] = "done"]
            /\ UNCHANGED <<source, clock, mfile, disk, backup_path,
                           timestamp, last, new_files, todo, cur,
                           current_hash, count, touched, events>>
       ELSE /\ last' = [last EXCEPT ![p] = LastBackup(LoadManifest(mfile))]
            /\ new_files' = [new_files EXCEPT ![p] = EmptyMap]
            /\ timestamp' = [timestamp EXCEPT ![p] = clock]
            /\ backup_path' = [backup_path EXCEPT ![p] =
                   <<"incr_backup", clock>>]
            /\ disk' = Mkdir(disk, <<"incr_backup", clock>>)
            /\ todo' = [todo EXCEPT ![p] = Rglob(source)]
            /\ count' = [count EXCEPT ![p] = 0]
            /\ outcome' = [outcome EXCEPT ![p] = [status |-> "running"]]
            /\ pc' = [pc EXCEPT ![p] = "incr_walk"]
            /\ UNCHANGED <<source, clock, mfile, cur, current_hash, touched,
                           events>>

\* one iteration up to current_hash = self._calculate_file_hash(src_file)
IncrHash(p) ==
    /\ pc[p] = "incr_walk"
    /\ \E f \in todo[p] :
        /\ todo' = [todo EXCEPT ![p] = @ \ {f}]
        /\ IF source[f] = NoFile
           THEN UNCHANGED <<cur, current_hash, pc>>
           ELSE /\ cur' = [cur EXCEPT ![p] = f]
                /\ current_hash' = [current_hash EXCEPT ![p] = MD5(source[f])]
                /\ pc' = [pc EXCEPT ![p] = "incr_copy"]
    /\ UNCHANGED <<source, clock, mfile, disk, op, backup_path, timestamp,
                   manifest, last, new_files, count, outcome, touched,
                   events>>

\* the rest of the iteration: the copy-or-skip test and the copy
IncrCopy(p) ==
    /\ pc[p] = "incr_copy"
    /\ IF Changed(last[p].files, cur[p], current_hash[p])
       THEN IF source[cur[p]] = NoFile
            THEN ExceptHandler(p, "copy", mfile, FALSE)
            ELSE /\ disk' = Copy2(disk, backup_path[p], cur[p],
                                  source[cur[p]])
                 /\ new_files' = [new_files EXCEPT ![p] =
                        [@ EXCEPT ![cur[p]] = current_hash[p]]]
                 /\ count' = [count EXCEPT ![p] = @ + 1]
                 /\ pc' = [pc EXCEPT ![p] = "incr_walk"]
                 /\ UNCHANGED <<source, clock, mfile, op, backup_path,
                                timestamp, manifest, last, todo, cur,
                                current_hash, outcome, touched, events>>
       ELSE /\ pc' = [pc EXCEPT ![p] = "incr_walk"]
            /\ UNCHANGED <<source, clock, mfile, disk, op, backup_path,
                           timestamp, manifest, last, new_files, todo, cur,
                           current_hash, count, outcome, touched, events>>

\* an I/O error raised by the hasher or by shutil.copy2 inside the loop
IncrIOError(p) ==
    \/ /\ pc[p] = "incr_walk" /\ todo[p] # {}
       /\ ExceptHandler(p, "hash", mfile, TRUE)
    \/ /\ pc[p] = "incr_copy"
       /\ Changed(last[p].files, cur[p], current_hash[p])
       /\ ExceptHandler(p, "copy", mfile, TRUE)

\* faulty variant of IncrFinish: the parent is the reference full backup, as
\* in differential_backup, instead of the newest record
IncrFinishParentFull(p) ==
    /\ pc[p] = "incr_walk" /\ todo[p] = {}
    /\ IF new_files[p] # EmptyMap
       THEN AppendAndSave(p, [type |-> "incremental",
                              timestamp |-> timestamp[p],
                              path |-> backup_path[p],
                              files |-> new_files[p],
                              parent |-> LastFull(manifest[p]).timestamp])
       ELSE NoChanges(p)

IncrFinish(p) ==
    /\ pc[p] = "incr_walk" /\ todo[p] = {}
    /\ IF new_files[p] # EmptyMap
       THEN AppendAndSave(p, [type |-> "incremental",
                              timestamp |-> timestamp[p],
                              path |-> backup_path[p],
                              files |-> new_files[p],
                              parent |-> last[p].timestamp])
       ELSE NoChanges(p)

\* ---- differential_backup ----

\* faulty variant of DiffStart: the folder is made before the precondition
\* is tested, as full_backup makes it before it loads the manifest
DiffStartMkdirFirst(p) ==
    /\ Idle(p)
    /\ Len(LoadManifest(mfile)) < MaxRecs
    /\ op' = [op EXCEPT ![p] = "differential"]
    /\ manifest' = [manifest EXCEPT ![p] = LoadManifest(mfile)]
    /\ timestamp' = [timestamp EXCEPT ![p] = clock]
    /\ backup_path' = [backup_path EXCEPT ![p] = <<"diff_backup", clock>>]
    /\ disk' = Mkdir(disk, <<"diff_backup", clock>>)
    /\ IF \/ LoadManifest(mfile) = << >>
          \/ LastFull(LoadManifest(mfile)) = NoRecord
       THEN /\ outcome' = [outcome EXCEPT ![p] =
                   [status |-> "skipped", count |-> 0]]
            /\ pc' = [pc EXCEPT ![p] = "done"]
            /\ UNCHANGED <<source, clock, mfile, last, new_files, todo, cur,
                           current_hash, count, touched, events>>
       ELSE /\ last' = [last EXCEPT ![p] = LastFull(LoadManifest(mfile))]
            /\ new_files' = [new_files EXCEPT ![p] = EmptyMap]
            /\ todo' = [todo EXCEPT ![p] = Rglob(source)]
            /\ count' = [count EXCEPT ![p] = 0]
            /\ outcome' = [outcome EXCEPT ![p] = [status |-> "running"]]
            /\ pc' = [pc EXCEPT ![p] = "diff_walk"]
            /\ UNCHANGED <<source, clock, mfile, cur, current_hash, touched,
                           events>>

\* faulty variant of DiffStart: the walk compares against the newest record
\* instead of the full backup the search found
DiffStartRefLatest(p) ==
    /\ Idle(p)
    /\ Len(LoadManifest(mfile)) < MaxRecs
    /\ op' = [op EXCEPT ![p] = "differential"]
    /\ manifest' = [manifest EXCEPT ![p] = LoadManifest(mfile)]
    /\ IF \/ LoadManifest(mfile) = << >>
          \/ LastFull(LoadManifest(mfile)) = NoRecord
       THEN /\ outcome' = [outcome EXCEPT ![p] =
                   [status |-> "skipped", count |-> 0]]
            /\ pc' = [pc EXCEPT ![p] = "done"]
            /\ UNCHANGED <<source, clock, mfile, disk, backup_path,
                           timestamp, last, new_files, todo, cur,
                           current_hash, count, touched, events>>
       ELSE /\ last' = [last EXCEPT ![p] = LastBackup(LoadManifest(mfile))]
            /\ new_files' = [new_files EXCEPT ![p] = EmptyMap]
            /\ timestamp' = [timestamp EXCEPT ![p] = clock]
            /\ backup_path' = [backup_path EXCEPT ![p] =
                   <<"diff_backup", clock>>]
            /\ disk' = Mkdir(disk, <<"diff_backup", clock>>)
            /\ todo' = [todo EXCEPT ![p] = Rglob(source)]
            /\ count' = [count EXCEPT ![p] = 0]
            /\ outcome' = [outcome EXCEPT ![p] = [status |-> "running"]]
            /\ pc' = [pc EXCEPT ![p] = "diff_walk"]
            /\ UNCHANGED <<source, clock, mfile, cur, current_hash, touched,
                           events>>

DiffStart(p) ==
    /\ Idle(p)
    /\ Len(LoadManifest(mfile)) < MaxRecs
    /\ op' = [op EXCEPT ![p] = "differential"]
    /\ manifest' = [manifest EXCEPT ![p] = LoadManifest(mfile)]
    /\ IF \/ LoadManifest(mfile) = << >>
          \/ LastFull(LoadManifest(mfile)) = NoRecord
       THEN /\ outcome' = [outcome EXCEPT ![p] =
                   [status |-> "skipped", count |-> 0]]
            /\ pc' = [pc EXCEPT ![p] = "done"]
            /\ UNCHANGED <<source, clock, mfile, disk, backup_path,
                           timestamp, last, new_files, todo, cur,
                           current_hash, count, touched, events>>
       ELSE /\ last' = [last EXCEPT ![p] = LastFull(LoadManifest(mfile))]
            /\ new_files' = [new_files EXCEPT ![p] = EmptyMap]
            /\ timestamp' = [timestamp EXCEPT ![p] = clock]
            /\ backup_path' = [backup_path EXCEPT ![p] =
                   <<"diff_backup", clock>>]
            /\ disk' = Mkdir(disk, <<"diff_backup", clock>>)
            /\ todo' = [todo EXCEPT ![p] = Rglob(source)]
            /\ count' = [count EXCEPT ![p] = 0]
            /\ outcome' = [outcome EXCEPT ![p] = [status |-> "running"]]
            /\ pc' = [pc EXCEPT ![p] = "diff_walk"]
            /\ UNCHANGED <<source, clock, mfile, cur, current_hash, touched,
                           events>>

DiffHash(p) ==
    /\ pc[p] = "diff_walk"
    /\ \E f \in todo[p] :
        /\ todo' = [todo EXCEPT ![p] = @ \ {f}]
        /\ IF source[f] = NoFile
           THEN UNCHANGED <<cur, current_hash, pc>>
           ELSE /\ cur' = [cur EXCEPT ![p] = f]
                /\ current_hash' = [current_hash EXCEPT ![p] = MD5(source[f])]
                /\ pc' = [pc EXCEPT ![p] = "diff_copy"]
    /\ UNCHANGED <<source, clock, mfile, disk, op, backup_path, timestamp,
                   manifest, last, new_files, count, outcome, touched,
                   events>>

DiffCopy(p) ==
    /\ pc[p] = "diff_copy"
    /\ IF Changed(last[p].files, cur[p], current_hash[p])
       THEN IF source[cur[p]] = NoFile
            THEN ExceptHandler(p, "copy", mfile, FALSE)
            ELSE /\ disk' = Copy2(disk, backup_path[p], cur[p],
                                  source[cur[p]])
                 /\ new_files' = [new_files EXCEPT ![p] =
                        [@ EXCEPT ![cur[p]] = current_hash[p]]]
                 /\ count' = [count EXCEPT ![p] = @ + 1]
                 /\ pc' = [pc EXCEPT ![p] = "diff_walk"]
                 /\ UNCHANGED <<source, clock, mfile, op, backup_path,
                                timestamp, manifest, last, todo, cur,
                                current_hash, outcome, touched, events>>
       ELSE /\ pc' = [pc EXCEPT ![p] = "diff_walk"]
            /\ UNCHANGED <<source, clock, mfile, disk, op, backup_path,
                           timestamp, manifest, last, new_files, todo, cur,
                           current_hash, count, outcome, touched, events>>

DiffIOError(p) ==
    \/ /\ pc[p] = "diff_walk" /\ todo[p] # {}
       /\ ExceptHandler(p, "hash", mfile, TRUE)
    \/ /\ pc[p] = "diff_copy"
       /\ Changed(last[p].files, cur[p], current_hash[p])
       /\ ExceptHandler(p, "copy", mfile, TRUE)

\* faulty variant of DiffFinish: the parent is the newest record, as in
\* incremental_backup, instead of the reference full backup
DiffFinishParentLatest(p) ==
    /\ pc[p] = "diff_walk" /\ todo[p] = {}
    /\ IF new_files[p] # EmptyMap
       THEN AppendAndSave(p, [type |-> "differential",
                              timestamp |-> timestamp[p],
                              path |-> backup_path[p],
                              files |-> new_files[p],
                              parent |-> LastBackup(manifest[p]).timestamp])
       ELSE NoChanges(p)

\* faulty variant of DiffFinish: a path of the reference that is gone from
\* the source counts as a change, and a record is appended for it
DiffFinishOnDeletion(p) ==
    /\ pc[p] = "diff_walk" /\ todo[p] = {}
    /\ IF \/ new_files[p] # EmptyMap
          \/ \E f \in Paths :
                 last[p].files[f] # NoKey /\ source[f] = NoFile
       THEN AppendAndSave(p, [type |-> "differential",
                              timestamp |-> timestamp[p],
                              path |-> backup_path[p],
                              files |-> new_files[p],
                              parent |-> last[p].timestamp])
       ELSE NoChanges(p)

DiffFinish(p) ==
    /\ pc[p] = "diff_walk" /\ todo[p] = {}
    /\ IF new_files[p] # EmptyMap
       THEN AppendAndSave(p, [type |-> "differential",
                              timestamp |-> timestamp[p],
                              path |-> backup_path[p],
                              files |-> new_files[p],
                              parent |-> last[p].timestamp])
       ELSE NoChanges(p)

\* ---- specifications ----

Run(p) ==
    \/ FullStart(p) \/ FullCopy(p) \/ FullHash(p) \/ FullIOError(p)
    \/ FullFinish(p)
    \/ IncrStart(p) \/ IncrHash(p) \/ IncrCopy(p) \/ IncrIOError(p)
    \/ IncrFinish(p)
    \/ DiffStart(p) \/ DiffHash(p) \/ DiffCopy(p) \/ DiffIOError(p)
    \/ DiffFinish(p)
    \/ Return(p)

\* one engine at a time, the source and the clock at rest while it runs
Next ==
    \/ \E p \in Solo : Run(p)
    \/ (AllIdle /\ Modify)
    \/ (AllIdle /\ Tick)

\* the engine on a backup directory it created itself
Spec == Init /\ [][Next]_vars

\* the engine on a backup directory as it may find it
SpecAny == InitAny /\ [][Next]_vars

\* one call of one of the three strategies, up to its return or raise
Call(p) ==
    \/ FullStart(p) \/ FullCopy(p) \/ FullHash(p) \/ FullIOError(p)
    \/ FullFinish(p)
    \/ IncrStart(p) \/ IncrHash(p) \/ IncrCopy(p) \/ IncrIOError(p)
    \/ IncrFinish(p)
    \/ DiffStart(p) \/ DiffHash(p) \/ DiffCopy(p) \/ DiffIOError(p)
    \/ DiffFinish(p)

\* the record and the folder a full backup of the initial source, made in
\* second 0, leaves
KeptFull ==
    [type |-> "full", timestamp |-> 0, path |-> <<"full_backup", 0>>,
     files |-> [f \in Paths |-> MD5(1)]]

\* the state in which two engines, or an engine and a writer of the source,
\* meet: second 1, a backup directory that is fresh or holds the full backup
\* of second 0, a.txt rewritten since or not
InitConc ==
    /\ source \in {[f \in Paths |-> 1],
                   [[f \in Paths |-> 1] EXCEPT !["a.txt"] = 2]}
    /\ clock = 1
    /\ touched = (source["a.txt"] # 1)
    /\ events = 0
    /\ InitRun
    /\ \/ /\ mfile = Absent
          /\ disk = [n \in FolderNames |-> NoDir]
       \/ /\ mfile = Dumped(<<KeptFull>>)
          /\ disk = [[n \in FolderNames |-> NoDir]
                        EXCEPT ![KeptFull.path] =
                            [exists |-> TRUE, files |-> [f \in Paths |-> 1]]]

\* two engine processes on the same backup directory, each making one call,
\* their steps interleaved
NextConc == \E p \in Procs : Call(p)

SpecConc == InitConc /\ [][NextConc]_vars

\* one engine call while another process writes the source tree
NextBusy ==
    \/ \E p \in Solo : Call(p)
    \/ Modify

SpecBusy == InitConc /\ [][NextBusy]_vars

\* a backup directory without records: no manifest file, an unparsable one,
\* or one that holds the empty list
InitFresh ==
    /\ InitEnv
    /\ InitRun
    /\ mfile \in {Absent, Corrupt, Dumped(<< >>)}
    /\ disk = [n \in FolderNames |-> NoDir]

\* the engine on a backup directory without records
SpecFresh == InitFresh /\ [][Next]_vars

TypeOK ==
    /\ source \in [Paths -> Contents \cup {NoFile}]
    /\ clock \in 0..MaxEvents
    /\ events \in 0..MaxEvents
    /\ touched \in BOOLEAN
    /\ Len(LoadManifest(mfile)) <= MaxRecs
    /\ DOMAIN disk = FolderNames

\* ---- vocabulary of the properties ----

\* the indices of the full records of a manifest, and the one nearest its end
FullIdx(m) == {i \in 1..Len(m) : m[i].type = "full"}
NearestFull(m) == m[CHOOSE i \in FullIdx(m) : \A j \in FullIdx(m) : j <= i]
NoFullIn(m) == \A i \in 1..Len(m) : m[i].type # "full"

\* the source files a walk in progress has already decided
Visited(p) == Rglob(source) \ todo[p]

\* the digest of source file f is not the one a files map holds for f
DiffersFrom(ref, f) == ref[f] # MD5(source[f])

IsPrefix(s, t) == Len(s) <= Len(t) /\ \A i \in 1..Len(s) : s[i] = t[i]

Skipped == [status |-> "skipped", count |-> 0]

\* the run is inside its walk/copy loop
InLoop(p) ==
    \/ pc[p] \in {"full_hash", "incr_copy", "diff_copy"}
    \/ pc[p] \in {"full_walk", "incr_walk", "diff_walk"} /\ todo[p] # {}

\* the loop is over and the run has a record to append
AtSave(p) ==
    /\ todo[p] = {}
    /\ \/ pc[p] = "full_walk"
       \/ pc[p] \in {"incr_walk", "diff_walk"} /\ new_files[p] # EmptyMap

\* a step in which the run ends without its record reaching the manifest file
SaveFailed(p) ==
    /\ AtSave(p)
    /\ pc'[p] = "done"
    /\ Len(LoadManifest(mfile')) # Len(manifest[p]) + 1

\* ---- C1 ----
\* C1: between two iterations of a differential run, every source file the
\* walk has visited was copied exactly when its digest differs from the
\* entry of the nearest full record of the loaded manifest (searching from
\* the end), whatever more recent incremental or differential records say.
C1_DifferentialReference ==
    \A p \in Procs :
        pc[p] = "diff_walk" =>
            /\ FullIdx(manifest[p]) # {}
            /\ \A f \in Visited(p) :
                   (new_files[p][f] # NoKey) <=>
                       DiffersFrom(NearestFull(manifest[p]).files, f)

\* a differential walk is over, the newest record is an incremental one, and
\* a file was copied that the newest record would have skipped
C1_Witness ==
    \E p \in Procs :
        /\ pc[p] = "diff_walk" /\ todo[p] = {}
        /\ LastBackup(manifest[p]).type = "incremental"
        /\ \E f \in Rglob(source) :
               /\ new_files[p][f] # NoKey
               /\ ~DiffersFrom(LastBackup(manifest[p]).files, f)

\* ---- C2 ----
\* C2: between two iterations of an incremental run, every source file the
\* walk has visited was copied exactly when its digest differs from the
\* entry of the last record of the loaded manifest, whatever its type and
\* whatever earlier records say.
C2_IncrementalReference ==
    \A p \in Procs :
        pc[p] = "incr_walk" =>
            /\ manifest[p] # << >>
            /\ \A f \in Visited(p) :
                   (new_files[p][f] # NoKey) <=>
                       DiffersFrom(manifest[p][Len(manifest[p])].files, f)

\* an incremental walk is over, the newest record is an incremental one,
\* and the decision for some file is not the one the first record gives
C2_Witness ==
    \E p \in Procs :
        /\ pc[p] = "incr_walk" /\ todo[p] = {}
        /\ Len(manifest[p]) >= 2
        /\ manifest[p][Len(manifest[p])].type = "incremental"
        /\ \E f \in Rglob(source) :
               (new_files[p][f] # NoKey) # DiffersFrom(manifest[p][1].files, f)

\* ---- C3 ----
\* C3: a run of any strategy that leaves its walk/copy loop early ends as a
\* failure raised to the caller, with its backup folder gone and with the
\* manifest file untouched, holding the records the run loaded at its start.
C3_FailureCleanup ==
    [][\A p \in Procs :
          (InLoop(p) /\ pc'[p] = "done") =>
              /\ outcome'[p].status = "failed"
              /\ ~disk'[backup_path[p]].exists
              /\ mfile' = mfile
              /\ LoadManifest(mfile') = manifest[p]]_vars

\* a run failed in its loop after it had processed a file, on a manifest
\* that holds a record
C3_Witness ==
    \E p \in Procs :
        /\ pc[p] = "done"
        /\ outcome[p].status = "failed"
        /\ outcome[p].error \in {"hash", "copy"}
        /\ count[p] >= 1
        /\ Len(manifest[p]) >= 1

\* ---- C4 ----
\* C4: after a run whose manifest write failed, loading the manifest file
\* gives exactly the records that were persisted before the run.
C4_AtomicSave ==
    \A p \in Procs :
        (/\ pc[p] = "done"
         /\ outcome[p].status = "failed"
         /\ outcome[p].error = "save") =>
            LoadManifest(mfile) = manifest[p]

\* ---- C5 ----
\* C5 as stated: when the loop succeeded and only the manifest write fails,
\* the error is raised, the manifest gains no record and the folder of the
\* run is still on disk.
C5_OrphanFolder ==
    [][\A p \in Procs :
          SaveFailed(p) =>
              /\ outcome'[p].status = "failed"
              /\ LoadManifest(mfile') \in {manifest[p], << >>}
              /\ disk'[backup_path[p]].exists]_vars

\* C5 as amended: when the loop succeeded and only the manifest write
\* fails, the error is raised, the manifest gains no record (it reads back
\* as it was loaded, or as empty) and the folder of the run is removed.
C5_FolderRemoved ==
    [][\A p \in Procs :
          SaveFailed(p) =>
              /\ outcome'[p].status = "failed"
              /\ LoadManifest(mfile') \in {manifest[p], << >>}
              /\ ~disk'[backup_path[p]].exists]_vars

\* a run copied a file, failed to write the manifest, and its folder is gone
C5_Witness ==
    \E p \in Procs :
        /\ pc[p] = "done"
        /\ outcome[p].status = "failed"
        /\ outcome[p].error = "save"
        /\ count[p] >= 1
        /\ ~disk[backup_path[p]].exists

\* ---- C6 ----
\* the scenario of C6: a differential run on the manifest
\* <<Full {a.txt, b.txt}, Incremental {a.txt} with the Full as parent>>,
\* a.txt having been rewritten before the incremental run and the source
\* being unchanged since
ScenarioC6(p) ==
    /\ op[p] = "differential"
    /\ Len(manifest[p]) = 2
    /\ manifest[p][1].type = "full"
    /\ manifest[p][1].files = [f \in Paths |-> MD5(1)]
    /\ manifest[p][2].type = "incremental"
    /\ manifest[p][2].parent = manifest[p][1].timestamp
    /\ manifest[p][2].files = [EmptyMap EXCEPT !["a.txt"] = MD5(2)]
    /\ source = [[f \in Paths |-> 1] EXCEPT !["a.txt"] = 2]

\* C6 as stated: the differential run of the scenario, when it does not
\* fail, reports no changes, leaves no folder and leaves 2 records.
C6_ScenarioNoChanges ==
    \A p \in Procs :
        (pc[p] = "done" /\ ScenarioC6(p) /\ outcome[p].status # "failed") =>
            /\ outcome[p] = Skipped
            /\ ~disk[backup_path[p]].exists
            /\ Len(LoadManifest(mfile)) = 2

\* C6 as amended: the differential run of the scenario, when it does not
\* fail, completes with count 1: it copies a.txt, which differs from the
\* Full record, and appends a third record of type differential whose
\* parent is the Full record's timestamp and whose files are a.txt only.
C6_ScenarioCompletes ==
    \A p \in Procs :
        (pc[p] = "done" /\ ScenarioC6(p) /\ outcome[p].status # "failed") =>
            /\ outcome[p] = [status |-> "completed",
                             path |-> backup_path[p], count |-> 1]
            /\ disk[backup_path[p]].exists
            /\ disk[backup_path[p]].files["a.txt"] = 2
            /\ LoadManifest(mfile) = Append(manifest[p],
                   [type |-> "differential",
                    timestamp |-> timestamp[p],
                    path |-> backup_path[p],
                    files |-> [EmptyMap EXCEPT !["a.txt"] = MD5(2)],
                    parent |-> manifest[p][1].timestamp])

\* the differential run of the scenario has completed, the Full and the
\* Incremental record bearing different timestamps
C6_Witness ==
    \E p \in Procs :
        /\ pc[p] = "done"
        /\ ScenarioC6(p)
        /\ outcome[p].status = "completed"
        /\ manifest[p][1].timestamp # manifest[p][2].timestamp

\* ---- C7 ----
\* C7: an incremental run whose walk completes on a manifest whose last
\* record is a full backup, the source not written since that record was
\* appended, returns (None, 0), leaves the manifest file untouched and
\* removes the folder it created.
C7_NoChangeAfterFull ==
    [][\A p \in Procs :
          (/\ pc[p] = "incr_walk" /\ todo[p] = {}
           /\ pc'[p] = "done"
           /\ LastBackup(manifest[p]).type = "full"
           /\ ~touched) =>
              /\ outcome'[p] = Skipped
              /\ mfile' = mfile
              /\ LoadManifest(mfile') = manifest[p]
              /\ ~disk'[backup_path[p]].exists]_vars

\* an incremental run right after a full backup of a non-empty source was
\* skipped
C7_Witness ==
    \E p \in Procs :
        /\ pc[p] = "done"
        /\ op[p] = "incremental"
        /\ outcome[p] = Skipped
        /\ manifest[p] # << >>
        /\ LastBackup(manifest[p]).type = "full"
        /\ Rglob(source) = Paths
        /\ ~touched

\* ---- C8 ----
\* C8: an incremental run made while the source has not been written since
\* the most recent record was appended copies nothing, whatever the kind of
\* that record.
C8_NoChangeNoCopy ==
    \A p \in Procs :
        (pc[p] \in {"incr_walk", "incr_copy"} /\ ~touched) =>
            new_files[p] = EmptyMap

\* ---- C9 ----
\* C9: in every step the persisted record list is a prefix of the persisted
\* record list after the step and grows by at most one record; the step
\* that ends a run appends one record exactly when the run completed.
C9_AppendOnly ==
    [][/\ IsPrefix(LoadManifest(mfile), LoadManifest(mfile'))
       /\ Len(LoadManifest(mfile')) <= Len(LoadManifest(mfile)) + 1
       /\ \A p \in Procs :
              (pc[p] # "done" /\ pc'[p] = "done") =>
                  ((Len(LoadManifest(mfile')) = Len(LoadManifest(mfile)) + 1)
                       <=> outcome'[p].status = "completed")]_vars

\* ---- C10 ----
\* C10: an incremental run started on an empty manifest, and a differential
\* run started on a manifest that is empty or holds no full record, return
\* (None, 0) at once, without raising, creating no folder and leaving the
\* manifest file untouched.
C10_PreconditionSkip ==
    [][\A p \in Procs :
          (/\ pc[p] = "idle" /\ pc'[p] # "idle"
           /\ \/ op'[p] = "incremental" /\ LoadManifest(mfile) = << >>
              \/ op'[p] = "differential" /\ NoFullIn(LoadManifest(mfile))) =>
              /\ pc'[p] = "done"
              /\ outcome'[p] = Skipped
              /\ disk' = disk
              /\ mfile' = mfile]_vars

\* a differential run was skipped on a manifest that holds records, none of
\* them a full backup
C10_Witness ==
    \E p \in Procs :
        /\ pc[p] = "done"
        /\ op[p] = "differential"
        /\ manifest[p] # << >>
        /\ NoFullIn(manifest[p])
        /\ outcome[p] = Skipped

\* the keys of a dict
Keys(map) == {f \in Paths : map[f] # NoKey}

\* the step ends the run of p
Ends(p) == pc[p] # "done" /\ pc'[p] = "done"

\* the caller of p got (backup_path, count)
Completed(p) ==
    outcome[p] = [status |-> "completed", path |-> backup_path[p],
                  count |-> count[p]]

\* ---- C11 ----
\* C11: a run that starts while the manifest file is absent or unparsable
\* loads the empty manifest without raising and without touching the file:
\* an incremental or differential run is skipped at once and creates no
\* folder, a full run proceeds to its walk.
C11_LoadTolerance ==
    [][\A p \in Procs :
          (pc[p] = "idle" /\ pc'[p] # "idle" /\ mfile.st # "valid") =>
              /\ manifest'[p] = << >>
              /\ mfile' = mfile
              /\ outcome'[p].status # "failed"
              /\ op'[p] \in {"incremental", "differential"} =>
                     (pc'[p] = "done" /\ outcome'[p] = Skipped /\ disk' = disk)
              /\ op'[p] = "full" =>
                     (pc'[p] = "full_walk" /\ todo'[p] = Rglob(source))]_vars

\* an incremental or differential run was skipped on an unparsable manifest
\* file
C11_Witness ==
    \E p \in Procs :
        /\ pc[p] = "done"
        /\ op[p] \in {"incremental", "differential"}
        /\ outcome[p] = Skipped
        /\ mfile = Corrupt

\* ---- C12 ----
\* C12: when a full run has completed (the source at rest while it ran),
\* the manifest file holds the loaded records plus one record of type full
\* without parent, whose files map has one entry per regular file of the
\* source and no other, each entry being the digest of the copy in the
\* backup folder, and the returned count is the number of entries.
C12_FullSnapshot ==
    \A p \in Procs :
        (pc[p] = "done" /\ op[p] = "full"
         /\ outcome[p].status = "completed") =>
            LET m == LoadManifest(mfile)
                r == m[Len(m)]
            IN  /\ m = Append(manifest[p], r)
                /\ r.type = "full"
                /\ DOMAIN r = {"type", "timestamp", "path", "files"}
                /\ r.path = backup_path[p]
                /\ Keys(r.files) = Rglob(source)
                /\ \A f \in Keys(r.files) :
                       /\ r.files[f] = MD5(source[f])
                       /\ disk[r.path].files[f] # NoFile
                       /\ r.files[f] = MD5(disk[r.path].files[f])
                /\ outcome[p].count = Cardinality(Keys(r.files))

\* a full run has completed on a source from which a file was deleted, the
\* manifest already holding a record
C12_Witness ==
    \E p \in Procs :
        /\ pc[p] = "done" /\ op[p] = "full"
        /\ outcome[p].status = "completed"
        /\ manifest[p] # << >>
        /\ Cardinality(Rglob(source)) = 1

\* ---- C13 ----
\* the three outcomes of C13, read on the step that ends the run of p
EndsCompleted(p) ==
    /\ Completed(p)'
    /\ backup_path'[p] # NoPath
    /\ \E r \in {LastBackup(LoadManifest(mfile'))} :
           /\ LoadManifest(mfile') = Append(LoadManifest(mfile), r)
           /\ r.path = backup_path'[p]
    /\ disk'[backup_path'[p]].exists

EndsSkipped(p) ==
    /\ outcome'[p] = Skipped
    /\ LoadManifest(mfile') = LoadManifest(mfile)
    /\ backup_path'[p] = NoPath \/ ~disk'[backup_path'[p]].exists

EndsFailed(p) ==
    /\ outcome'[p].status = "failed"
    /\ LoadManifest(mfile') \in {LoadManifest(mfile), << >>}

\* C13: the step that ends a run matches exactly one of completed ((path,
\* count) returned, one record appended whose path is the folder of the run,
\* the folder on disk), skipped ((None, 0) returned, no record appended, no
\* folder of the run on disk) and failed (raised, no record appended).
C13_TriState ==
    [][\A p \in Procs :
          Ends(p) =>
              \/ EndsCompleted(p) /\ ~EndsSkipped(p) /\ ~EndsFailed(p)
              \/ ~EndsCompleted(p) /\ EndsSkipped(p) /\ ~EndsFailed(p)
              \/ ~EndsCompleted(p) /\ ~EndsSkipped(p) /\ EndsFailed(p)]_vars

\* a differential run has completed on a manifest of two records
C13_Witness ==
    \E p \in Procs :
        /\ pc[p] = "done" /\ op[p] = "differential"
        /\ Completed(p)
        /\ Len(manifest[p]) = 2

\* ---- C14 ----
\* C14: when two runs that loaded the same manifest have both returned
\* completed, the manifest file holds what they loaded plus one record,
\* the record of the run that saved last: the save of a run overwrites the
\* file with what the run loaded, and the other record is lost.
C14_LostRecord ==
    \A p, q \in Procs :
        (/\ p # q
         /\ pc[p] = "done" /\ Completed(p)
         /\ pc[q] = "done" /\ Completed(q)
         /\ manifest[p] = manifest[q]) =>
            LET m == LoadManifest(mfile)
            IN  /\ Len(m) = Len(manifest[p]) + 1
                /\ \E w \in {p, q} :
                       /\ m = Append(manifest[w], m[Len(m)])
                       /\ m[Len(m)].path = backup_path[w]
                       /\ m[Len(m)].files = new_files[w]

\* two runs of different strategies have both returned completed, and no
\* record of the manifest file has the folder of the first as its path,
\* although the folder is on disk
C14_Witness ==
    /\ \A p \in Procs : pc[p] = "done" /\ Completed(p)
    /\ manifest[1] = manifest[2]
    /\ backup_path[1] # backup_path[2]
    /\ disk[backup_path[1]].exists
    /\ \A i \in 1..Len(LoadManifest(mfile)) :
           LoadManifest(mfile)[i].path # backup_path[1]

\* ---- C15 ----
\* C15: no two records of the manifest file have the same timestamp, and no
\* two have the same storage path.
C15_UniqueTimestamp ==
    LET m == LoadManifest(mfile)
    IN  \A i, j \in 1..Len(m) :
            i # j => /\ m[i].timestamp # m[j].timestamp
                     /\ m[i].path # m[j].path

\* ---- C16 ----
\* C16: in the manifest file a full record has no parent field, the parent
\* of an incremental record is the timestamp of the record right before it,
\* and the parent of a differential record is the timestamp of the nearest
\* full record before it.
C16_ParentPointer ==
    LET m == LoadManifest(mfile)
    IN  \A i \in 1..Len(m) :
            /\ m[i].type = "full" => "parent" \notin DOMAIN m[i]
            /\ m[i].type = "incremental" =>
                   /\ i > 1
                   /\ m[i].parent = m[i - 1].timestamp
            /\ m[i].type = "differential" =>
                   /\ FullIdx(SubSeq(m, 1, i - 1)) # {}
                   /\ m[i].parent = NearestFull(SubSeq(m, 1, i - 1)).timestamp

\* the manifest file holds a full, an incremental and a differential record
\* in this order, the first two made in different seconds
C16_Witness ==
    LET m == LoadManifest(mfile)
    IN  /\ Len(m) = 3
        /\ m[1].type = "full"
        /\ m[2].type = "incremental"
        /\ m[3].type = "differential"
        /\ m[1].timestamp # m[2].timestamp

\* ---- C17 ----
\* the files map of the record a run compares against, found in the loaded
\* manifest by the rule of its strategy
Reference(p) ==
    IF op[p] = "incremental"
    THEN manifest[p][Len(manifest[p])].files
    ELSE NearestFull(manifest[p]).files

\* the delta of the source against a files map
Delta(ref) ==
    [f \in Paths |->
        IF f \in Rglob(source) /\ DiffersFrom(ref, f)
        THEN MD5(source[f]) ELSE NoKey]

\* C17: the record an incremental or differential run appends when it
\* completes has as files map exactly the source files that are absent
\* from the reference map or differ from it, with their digests, and the
\* returned count is the size of that map; the iteration for a file whose
\* digest equals the reference copies nothing and records nothing.
C17_ExactDelta ==
    [][\A p \in Procs :
          /\ (/\ Ends(p)
              /\ op[p] \in {"incremental", "differential"}
              /\ outcome'[p].status = "completed") =>
                 LET m == LoadManifest(mfile')
                 IN  /\ m = Append(manifest[p], m[Len(m)])
                     /\ m[Len(m)].files = Delta(Reference(p))
                     /\ outcome'[p].count =
                            Cardinality(Keys(Delta(Reference(p))))
          /\ (/\ pc[p] \in {"incr_copy", "diff_copy"}
              /\ pc'[p] # pc[p]
              /\ ~DiffersFrom(Reference(p), cur[p])) =>
                 (disk' = disk /\ new_files' = new_files
                  /\ count' = count)]_vars

\* an incremental or differential run has completed with one of the two
\* source files copied and the other, equal to the reference, left out
C17_Witness ==
    \E p \in Procs :
        /\ pc[p] = "done"
        /\ op[p] \in {"incremental", "differential"}
        /\ Completed(p)
        /\ Rglob(source) = Paths
        /\ Cardinality(Keys(new_files[p])) = 1
        /\ \E f \in Paths :
               new_files[p][f] = NoKey /\ ~DiffersFrom(last[p].files, f)

\* ---- C18 ----
\* C18: for every record of the manifest file, its storage path is a folder
\* on disk that holds a copy of every path of its files map.
C18_RecordedOnDisk ==
    LET m == LoadManifest(mfile)
    IN  \A i \in 1..Len(m) :
            /\ disk[m[i].path].exists
            /\ \A f \in Keys(m[i].files) : disk[m[i].path].files[f] # NoFile

\* ---- C19 ----
\* C19: when a run has completed, each digest of the record it appended is
\* the digest of the copy stored for that path in the folder of the run,
\* also when the source was written while the run was in progress.
C19_DigestOfCopy ==
    \A p \in Procs :
        (pc[p] = "done" /\ Completed(p)) =>
            LET m == LoadManifest(mfile)
                r == m[Len(m)]
            IN  /\ r.path = backup_path[p]
                /\ \A f \in Keys(r.files) :
                       r.files[f] = MD5(disk[r.path].files[f])

\* ---- C20 ----
\* a files map overlaid with a later one
Override(base, later) ==
    [f \in Paths |-> IF later[f] # NoKey THEN later[f] ELSE base[f]]

\* the place in manifest m of the parent of record i: the record right
\* before an incremental record, the nearest full record before a
\* differential record
ParentIdx(m, i) ==
    IF m[i].type = "incremental" THEN i - 1
    ELSE CHOOSE k \in FullIdx(SubSeq(m, 1, i - 1)) :
             \A j \in FullIdx(SubSeq(m, 1, i - 1)) : j <= k

\* the files maps along the parent chain of record i, from its root full
\* record up to record i, each overlaid on the ones before
RECURSIVE Restore(_, _)
Restore(m, i) ==
    IF m[i].type = "full" THEN m[i].files
    ELSE Override(Restore(m, ParentIdx(m, i)), m[i].files)

\* C20: when a run has completed (the source at rest while it ran), the
\* overlay of the files maps along the parent chain of its record gives
\* for every source file its current digest; the chain of a differential
\* record is the reference full record and the record, and for an
\* incremental record the parent record and the record alone give every
\* source file its current digest.
C20_ChainRestores ==
    \A p \in Procs :
        (pc[p] = "done" /\ Completed(p)) =>
            LET m == LoadManifest(mfile)
                n == Len(m)
            IN  /\ \A f \in Rglob(source) :
                       Restore(m, n)[f] = MD5(source[f])
                /\ m[n].type # "full" =>
                       m[n].parent = m[ParentIdx(m, n)].timestamp
                /\ m[n].type = "differential" =>
                       /\ m[ParentIdx(m, n)].type = "full"
                       /\ \A f \in Rglob(source) :
                              Override(m[ParentIdx(m, n)].files,
                                       m[n].files)[f] = MD5(source[f])
                /\ m[n].type = "incremental" =>
                       \A f \in Rglob(source) :
                           Override(m[n - 1].files, m[n].files)[f]
                               = MD5(source[f])

\* a differential run has completed after an incremental record that holds
\* a digest the source no longer has
C20_Witness ==
    \E p \in Procs :
        /\ pc[p] = "done" /\ Completed(p) /\ op[p] = "differential"
        /\ LastBackup(manifest[p]).type = "incremental"
        /\ \E f \in Rglob(source) :
               /\ LastBackup(manifest[p]).files[f] # NoKey
               /\ DiffersFrom(LastBackup(manifest[p]).files, f)

\* ---- C21 ----
\* C21: a manifest file that holds records has a full record first; a
\* differential run that loaded records has found a reference full record,
\* and one that was skipped before it made a folder loaded no record.
C21_FullFirst ==
    /\ LoadManifest(mfile) # << >> => LoadManifest(mfile)[1].type = "full"
    /\ \A p \in Procs :
           op[p] = "differential" =>
               /\ manifest[p] # << >> =>
                      (manifest[p][1].type = "full" /\ last[p].type = "full")
               /\ (pc[p] = "done" /\ backup_path[p] = NoPath) =>
                      (outcome[p] = Skipped /\ manifest[p] = << >>)

\* a differential run has ended on a manifest whose newest record is not a
\* full one, with the first record as its reference
C21_Witness ==
    \E p \in Procs :
        /\ pc[p] = "done" /\ op[p] = "differential"
        /\ Len(manifest[p]) >= 2
        /\ LastBackup(manifest[p]).type # "full"
        /\ last[p] = manifest[p][1]

\* ---- C22 ----
\* the reference map of p has a path that is no file of the source
RefHasDeleted(p) ==
    \E f \in Paths : Reference(p)[f] # NoKey /\ source[f] = NoFile

\* every file of the source has the digest the reference map of p holds
NoFileDiffers(p) == \A f \in Rglob(source) : ~DiffersFrom(Reference(p), f)

\* C22: the record a run appends holds no path that is not a file of the
\* source (the source at rest while the run is in progress), and an
\* incremental or differential run whose walk ends on a source that differs
\* from the reference map by removed paths only returns (None, 0), leaves
\* the manifest file untouched and removes the folder it created.
C22_DeletionsInvisible ==
    [][\A p \in Procs :
          /\ (Ends(p) /\ outcome'[p].status = "completed") =>
                 Keys(LastBackup(LoadManifest(mfile')).files)
                     \subseteq Rglob(source)
          /\ (/\ pc[p] \in {"incr_walk", "diff_walk"} /\ todo[p] = {}
              /\ pc'[p] = "done"
              /\ NoFileDiffers(p)) =>
                 /\ outcome'[p] = Skipped
                 /\ mfile' = mfile
                 /\ LoadManifest(mfile') = manifest[p]
                 /\ ~disk'[backup_path[p]].exists]_vars

\* an incremental or differential run was skipped for no changes although
\* a path of its reference map is gone from the source
C22_Witness ==
    \E p \in Procs :
        /\ pc[p] = "done"
        /\ op[p] \in {"incremental", "differential"}
        /\ backup_path[p] # NoPath
        /\ outcome[p] = Skipped
        /\ RefHasDeleted(p)

====
